---- MODULE Spec2Model ----
(***************************************************************************)
(* Model of the Windows backend of robius-authentication                   *)
(* (src/sys/windows.rs): the PolicyBuilder, the authentication dispatcher  *)
(* in its blocking and suspending forms, the result normalizer `convert`,  *)
(* the conversion of platform errors and the caption encoder.              *)
(*                                                                         *)
(* The OS verifier and the fallback authenticator are the environment:     *)
(* every outcome they can deliver is an input of the action that consumes  *)
(* it.  A platform Result is a tuple <<"Ok", v>> or <<"Err", hresult>>; a   *)
(* portable Result<()> is "Ok" or the name of an Error kind.               *)
(***************************************************************************)
EXTENDS Integers, Sequences, FiniteSets, TLC

VARIABLES
    calls,      \* per call slot: the state of one authenticate call
    uwp,        \* build configuration: feature "uwp"
    script,     \* outcomes already delivered, shared by the two compared calls
    builder,    \* the PolicyBuilder value being threaded through setters
    history,    \* setter calls applied to the builder so far
    built,      \* whether build() has consumed the builder
    policy      \* the Option<Policy> build() returned

vars == <<calls, uwp, script, builder, history, built, policy>>

----------------------------------------------------------------------------
(* Bounds *)

NumCalls == 2       \* call slots
MaxSetters == 3     \* setter calls chained before build()
MaxPromptLen == 2   \* characters of a prompt description

----------------------------------------------------------------------------
(* Value domains *)

CallIds == 1..NumCalls

Modes == {"blocking", "suspending"}

\* Prompt descriptions, as sequences of Unicode scalar values:
\* "Hi" and one character outside the Basic Multilingual Plane.
Prompts == { <<72, 105>>, <<128512>> }

\* windows::core::Error values (HRESULTs); two, so that discarding the code
\* is visible.
WinErrors == {"E_FAIL", "E_ACCESSDENIED"}

\* UserConsentVerifierAvailability values the probe can complete with.
AvailabilityCodes ==
    {"Available", "DeviceNotPresent", "NotConfiguredForUser",
     "DisabledByPolicy", "DeviceBusy"}

\* UserConsentVerificationResult values: the seven named ones and two
\* stand-ins for values the match does not name.
KnownVerificationCodes ==
    {"Verified", "DeviceNotPresent", "NotConfiguredForUser",
     "DisabledByPolicy", "DeviceBusy", "RetriesExhausted", "Canceled"}

VerificationCodes == KnownVerificationCodes \cup {"Code7", "CodeNeg1"}

ErrorKinds == {"Unavailable", "Busy", "Exhausted", "UserCanceled", "Unknown"}

PortableResults == {"Ok"} \cup ErrorKinds

Ok(v) == <<"Ok", v>>
Err(e) == <<"Err", e>>
IsOk(r) == r[1] = "Ok"
IsErr(r) == r[1] = "Err"

\* Outcomes of the OS calls, as the environment delivers them.
ProbeCreateOutcomes == {Ok("op")} \cup {Err(e) : e \in WinErrors}
ProbeGetOutcomes == {Ok(a) : a \in AvailabilityCodes} \cup {Err(e) : e \in WinErrors}
RequestGetOutcomes == {Ok(c) : c \in VerificationCodes} \cup {Err(e) : e \in WinErrors}

\* request_verification has up to three fallible steps; the outcome says which
\* one failed first ("accepted": none did).
RequestStages(u) == IF u THEN {"hstring", "call"} ELSE {"factory", "hstring", "call"}
RequestCreateOutcomes(u) ==
    {[stage |-> "accepted", err |-> "S_OK"]}
    \cup {[stage |-> s, err |-> e] : s \in RequestStages(u), e \in WinErrors}

NotYet == <<>>
NoRequest == [stage |-> "none", err |-> "none"]

----------------------------------------------------------------------------
(* Pure functions *)

\* Variant: the HRESULT is classified instead of being discarded.
FromWindowsError_classified(value) ==
    IF value = "E_ACCESSDENIED" THEN "Unavailable" ELSE "Unknown"

\* impl From<windows::core::Error> for Error
FromWindowsError(value) == "Unknown"

\* Variant: the Canceled arm is missing.
convert_no_canceled(result) ==
    CASE result = "Verified" -> "Ok"
      [] result = "DeviceNotPresent" -> "Unavailable"
      [] result = "NotConfiguredForUser" -> "Unavailable"
      [] result = "DisabledByPolicy" -> "Unavailable"
      [] result = "DeviceBusy" -> "Busy"
      [] result = "RetriesExhausted" -> "Exhausted"
      [] OTHER -> "Unknown"

\* fn convert
convert(result) ==
    CASE result = "Verified" -> "Ok"
      [] result = "DeviceNotPresent" -> "Unavailable"
      [] result = "NotConfiguredForUser" -> "Unavailable"
      [] result = "DisabledByPolicy" -> "Unavailable"
      [] result = "DeviceBusy" -> "Busy"
      [] result = "RetriesExhausted" -> "Exhausted"
      [] result = "Canceled" -> "UserCanceled"
      [] OTHER -> "Unknown"

\* str::encode_utf16 for one scalar value
EncodeChar(c) ==
    IF c < 65536
    THEN <<c>>
    ELSE <<55296 + ((c - 65536) \div 1024), 56320 + ((c - 65536) % 1024)>>

RECURSIVE encode_utf16(_)
encode_utf16(message) ==
    IF message = <<>>
    THEN <<>>
    ELSE EncodeChar(Head(message)) \o encode_utf16(Tail(message))

\* Variant: the terminating 0 is not pushed.
caption_unterminated(message) == encode_utf16(message)

\* fn caption
caption(message) == Append(encode_utf16(message), 0)

\* Variant: the probe's outcome is kept in a static and reused while
\* another call holds one.
check_availability_cached(os) ==
    IF \E d \in DOMAIN calls : calls[d].probeOs # <<>>
    THEN LET d == CHOOSE d \in DOMAIN calls : calls[d].probeOs # <<>>
         IN  IF calls[d].probeOs[1] = "Ok" THEN calls[d].probeOs ELSE <<"Err", "Unknown">>
    ELSE IF os[1] = "Ok" THEN os ELSE <<"Err", "Unknown">>

\* fn check_availability: the OS call's result with its error converted
check_availability(os) ==
    IF IsOk(os) THEN os ELSE Err(FromWindowsError(os[2]))

\* fn request_verification (either cfg variant): whether the OS request was
\* reached, the caption it carried, and the Result handed back
request_verification(text, os) ==
    [issued |-> os.stage \in {"call", "accepted"},
     caption |-> caption(text),
     res |-> IF os.stage = "accepted"
             THEN Ok("op")
             ELSE Err(FromWindowsError(os.err))]

----------------------------------------------------------------------------
(* One call of the dispatcher *)

IdleCall ==
    [pc |-> "idle", mode |-> "blocking", prompt |-> <<>>, available |-> FALSE,
     ops |-> <<>>, result |-> "pending",
     probeOs |-> NotYet, probeGot |-> NotYet,
     reqOs |-> NoRequest, reqGot |-> NotYet, fbRes |-> NotYet]

ProbeOp == [op |-> "probe", text |-> <<>>]
RequestOp(cap) == [op |-> "request", text |-> cap]
FallbackOp(text) == [op |-> "fallback", text |-> text]

Finish(st, r) == [st EXCEPT !.pc = "done", !.result = r]

\* ---- blocking_authenticate ----

\* `check_availability()?`
blocking_probe(st, os) ==
    LET r == check_availability(os)
        st1 == [st EXCEPT !.ops = Append(@, ProbeOp)]
    IN  IF IsErr(r) THEN Finish(st1, r[2]) ELSE [st1 EXCEPT !.pc = "probe_wait"]

\* Variant: `.get().is_ok()`.
blocking_available_is_ok(got) == got[1] = "Ok"

\* `.get() == Ok(UserConsentVerifierAvailability::Available)`
blocking_available(got) == got = Ok("Available")

\* Variant: `check_availability()?.get()?`, a failed completion is returned.
blocking_route_propagating(st, got) ==
    IF got[1] = "Err"
    THEN [st EXCEPT !.pc = "done", !.result = "Unknown"]
    ELSE [st EXCEPT !.available = (got = <<"Ok", "Available">>),
                    !.pc = IF got = <<"Ok", "Available">>
                           THEN "request_call" ELSE "fallback_call"]

\* `let available = ...; if available { ... } else { ... }`
blocking_route(st, got) ==
    LET available == blocking_available(got)
    IN  [st EXCEPT !.available = available,
                   !.pc = IF available THEN "request_call" ELSE "fallback_call"]

\* Variant: a retry loop around the request while the device is busy.
blocking_authenticate_retrying(st, in) ==
    IF st.pc = "request_wait" /\ in = <<"Ok", "DeviceBusy">>
    THEN [st EXCEPT !.pc = "request_call"]
    ELSE IF st.pc = "probe_call"
    THEN IF in[1] = "Err"
         THEN [st EXCEPT !.ops = Append(@, [op |-> "probe", text |-> <<>>]),
                         !.pc = "done", !.result = "Unknown"]
         ELSE [st EXCEPT !.ops = Append(@, [op |-> "probe", text |-> <<>>]),
                         !.pc = "probe_wait"]
    ELSE IF st.pc = "probe_wait"
    THEN [st EXCEPT !.available = (in = <<"Ok", "Available">>),
                    !.pc = IF in = <<"Ok", "Available">>
                           THEN "request_call" ELSE "fallback_call"]
    ELSE IF st.pc = "request_call"
    THEN IF in.stage = "accepted"
         THEN [st EXCEPT !.ops = Append(@, [op |-> "request", text |-> caption(st.prompt)]),
                         !.pc = "request_wait"]
         ELSE IF in.stage = "call"
         THEN [st EXCEPT !.ops = Append(@, [op |-> "request", text |-> caption(st.prompt)]),
                         !.pc = "done", !.result = "Unknown"]
         ELSE [st EXCEPT !.pc = "done", !.result = "Unknown"]
    ELSE IF st.pc = "request_wait"
    THEN [st EXCEPT !.pc = "done",
                    !.result = IF in[1] = "Err" THEN "Unknown" ELSE convert(in[2])]
    ELSE IF st.pc = "fallback_call"
    THEN [st EXCEPT !.ops = Append(@, [op |-> "fallback", text |-> st.prompt]),
                    !.pc = "done", !.result = in]
    ELSE st

\* `request_verification(message.windows)?`
blocking_request(st, os) ==
    LET r == request_verification(st.prompt, os)
        st1 == IF r.issued
               THEN [st EXCEPT !.ops = Append(@, RequestOp(r.caption))]
               ELSE st
    IN  IF IsErr(r.res) THEN Finish(st1, r.res[2]) ELSE [st1 EXCEPT !.pc = "request_wait"]

\* Variant: `....get()?; Ok(())`, the outcome code is dropped.
blocking_live_result_dropped(st, got) ==
    IF got[1] = "Err"
    THEN [st EXCEPT !.pc = "done", !.result = "Unknown"]
    ELSE [st EXCEPT !.pc = "done", !.result = "Ok"]

\* `convert(....get()?)`
blocking_live_result(st, got) ==
    IF IsErr(got) THEN Finish(st, FromWindowsError(got[2])) ELSE Finish(st, convert(got[2]))

\* `fallback::authenticate(message.windows)`
blocking_fallback(st, r) ==
    Finish([st EXCEPT !.ops = Append(@, FallbackOp(st.prompt))], r)

blocking_authenticate(st, in) ==
    CASE st.pc = "probe_call" -> blocking_probe(st, in)
      [] st.pc = "probe_wait" -> blocking_route(st, in)
      [] st.pc = "request_call" -> blocking_request(st, in)
      [] st.pc = "request_wait" -> blocking_live_result(st, in)
      [] st.pc = "fallback_call" -> blocking_fallback(st, in)
      [] OTHER -> st

\* ---- authenticate (feature "async") ----

\* `check_availability()?`
authenticate_probe(st, os) ==
    LET r == check_availability(os)
        st1 == [st EXCEPT !.ops = Append(@, ProbeOp)]
    IN  IF IsErr(r) THEN Finish(st1, r[2]) ELSE [st1 EXCEPT !.pc = "probe_wait"]

\* Variant: only the three "no verifier" values count as unavailable.
authenticate_available_busy(got) ==
    /\ got[1] = "Ok"
    /\ got[2] \notin {"DeviceNotPresent", "NotConfiguredForUser", "DisabledByPolicy"}

\* `.await == Ok(UserConsentVerifierAvailability::Available)`
authenticate_available(got) == got = Ok("Available")

authenticate_route(st, got) ==
    LET available == authenticate_available(got)
    IN  [st EXCEPT !.available = available,
                   !.pc = IF available THEN "request_call" ELSE "fallback_call"]

\* `request_verification(message.windows)?`
authenticate_request(st, os) ==
    LET r == request_verification(st.prompt, os)
        st1 == IF r.issued
               THEN [st EXCEPT !.ops = Append(@, RequestOp(r.caption))]
               ELSE st
    IN  IF IsErr(r.res) THEN Finish(st1, r.res[2]) ELSE [st1 EXCEPT !.pc = "request_wait"]

\* Variant: a code outside the seven named ones is waited on again
\* instead of being mapped.
authenticate_live_result_unresolved(st, got) ==
    IF got[1] = "Err" THEN [st EXCEPT !.pc = "done", !.result = "Unknown"]
    ELSE IF got[2] \in KnownVerificationCodes
    THEN [st EXCEPT !.pc = "done", !.result = convert(got[2])]
    ELSE st

\* `convert(....await?)`
authenticate_live_result(st, got) ==
    IF IsErr(got) THEN Finish(st, FromWindowsError(got[2])) ELSE Finish(st, convert(got[2]))

\* Variant: `fallback::authenticate(..).map_err(|_| Error::Unknown)`.
authenticate_fallback_mapped(st, r) ==
    [st EXCEPT !.ops = Append(@, [op |-> "fallback", text |-> st.prompt]),
               !.pc = "done",
               !.result = IF r = "Ok" THEN "Ok" ELSE "Unknown"]

\* `fallback::authenticate(message.windows)`
authenticate_fallback(st, r) ==
    Finish([st EXCEPT !.ops = Append(@, FallbackOp(st.prompt))], r)

authenticate(st, in) ==
    CASE st.pc = "probe_call" -> authenticate_probe(st, in)
      [] st.pc = "probe_wait" -> authenticate_route(st, in)
      [] st.pc = "request_call" -> authenticate_request(st, in)
      [] st.pc = "request_wait" -> authenticate_live_result(st, in)
      [] st.pc = "fallback_call" -> authenticate_fallback(st, in)
      [] OTHER -> st

\* The code of the call's mode, run from its current position on input `in`.
Run(st, in) ==
    IF st.mode = "blocking" THEN blocking_authenticate(st, in) ELSE authenticate(st, in)

----------------------------------------------------------------------------
(* PolicyBuilder *)

NoStrength == <<>>
Strengths == {NoStrength, <<"Strong">>, <<"Weak">>}   \* Option<BiometricStrength>

NoPolicy == <<>>
SomePolicy == <<"Policy">>

\* Variant: a builder is invalid until a factor is declared.
new_invalid == [valid |-> FALSE]

new == [valid |-> TRUE]

\* Variant: a strength makes the builder valid again.
biometrics_restoring(self, b) ==
    IF b = NoStrength THEN [valid |-> FALSE] ELSE [valid |-> TRUE]

\* Variant: the flag is assigned instead of only being cleared.
biometrics_assigned(self, b) == [valid |-> b # NoStrength]

biometrics(self, b) == IF b = NoStrength THEN [valid |-> FALSE] ELSE self

\* Variant: the flag is assigned instead of only being cleared.
password_assigned(self, p) == [valid |-> p]

password(self, p) == IF p THEN self ELSE [valid |-> FALSE]

\* Variant: watch(false) treated like password(false).
watch_checked(self, w) == IF w THEN self ELSE [valid |-> FALSE]

watch(self, w) == self

\* Variant: the setter returns a fresh builder.
wrist_detection_fresh(self, w) == [valid |-> TRUE]

wrist_detection(self, w) == self

build(self) == IF self.valid THEN SomePolicy ELSE NoPolicy

----------------------------------------------------------------------------
(* Actions of the dispatcher *)

InFlight(c) == calls[c].pc \notin {"idle", "done"}

\* The caller invokes blocking_authenticate / first polls authenticate.
\* A call starts when no other is outstanding and its result was taken, so
\* the calls of a behaviour are sequential, in any slot, mode and prompt.
Call(c, mode, prompt) ==
    /\ \A d \in CallIds : calls[d].pc = "idle"
    /\ calls' = [calls EXCEPT ![c] =
                    [IdleCall EXCEPT !.pc = "probe_call", !.mode = mode, !.prompt = prompt]]
    /\ UNCHANGED <<uwp, builder, history, built, policy>>

\* CheckAvailabilityAsync() returns: the operation or an error.
ProbeIssue(c, os) ==
    /\ calls[c].pc = "probe_call"
    /\ calls' = [calls EXCEPT ![c] = [Run(calls[c], os) EXCEPT !.probeOs = os]]
    /\ UNCHANGED <<uwp, builder, history, built, policy>>

\* The probe operation completes.
ProbeComplete(c, got) ==
    /\ calls[c].pc = "probe_wait"
    /\ calls' = [calls EXCEPT ![c] = [Run(calls[c], got) EXCEPT !.probeGot = got]]
    /\ UNCHANGED <<uwp, builder, history, built, policy>>

\* request_verification returns: the operation or an error.
RequestIssue(c, os) ==
    /\ calls[c].pc = "request_call"
    /\ calls' = [calls EXCEPT ![c] = [Run(calls[c], os) EXCEPT !.reqOs = os]]
    /\ UNCHANGED <<uwp, builder, history, built, policy>>

\* The verification operation completes.
RequestComplete(c, got) ==
    /\ calls[c].pc = "request_wait"
    /\ calls' = [calls EXCEPT ![c] = [Run(calls[c], got) EXCEPT !.reqGot = got]]
    /\ UNCHANGED <<uwp, builder, history, built, policy>>

\* fallback::authenticate is called and returns r.
Fallback(c, r) ==
    /\ calls[c].pc = "fallback_call"
    /\ calls' = [calls EXCEPT ![c] = [Run(calls[c], r) EXCEPT !.fbRes = <<r>>]]
    /\ UNCHANGED <<uwp, builder, history, built, policy>>

\* The caller takes the result; the slot is free for the next call.
Return(c) ==
    /\ calls[c].pc = "done"
    /\ calls' = [calls EXCEPT ![c] = IdleCall]
    /\ UNCHANGED <<uwp, builder, history, built, policy>>

----------------------------------------------------------------------------------------------------------------------------------------
(* Actions of the builder *)

Arg(x) == IF x THEN "true" ELSE "false"
StrengthArg(b) == IF b = NoStrength THEN "None" ELSE b[1]

Chain(f, a) ==
    /\ ~built
    /\ Len(history) < MaxSetters
    /\ history' = Append(history, [f |-> f, arg |-> a])
    /\ UNCHANGED <<calls, uwp, script, built, policy>>

Biometrics(b) == builder' = biometrics(builder, b) /\ Chain("biometrics", StrengthArg(b))
Password(p) == builder' = password(builder, p) /\ Chain("password", Arg(p))
Watch(w) == builder' = watch(builder, w) /\ Chain("watch", Arg(w))
WristDetection(w) ==
    builder' = wrist_detection(builder, w) /\ Chain("wrist_detection", Arg(w))

Build ==
    /\ ~built
    /\ built' = TRUE
    /\ policy' = build(builder)
    /\ UNCHANGED <<calls, uwp, script, builder, history>>

----------------------------------------------------------------------------
(* Specification of the dispatcher: sequential calls, every outcome *)

NoScript == [probeOs |-> NotYet, probeGot |-> NotYet, reqOs |-> NoRequest,
             reqGot |-> NotYet, fbRes |-> NotYet]

InitBuilder ==
    /\ builder = new
    /\ history = <<>>
    /\ built = FALSE
    /\ policy = NoPolicy

Init ==
    /\ calls = [c \in CallIds |-> IdleCall]
    /\ uwp \in BOOLEAN
    /\ script = NoScript
    /\ InitBuilder

DoCall ==
    \E c \in CallIds, m \in Modes, p \in Prompts : Call(c, m, p) /\ UNCHANGED script
DoProbeIssue ==
    \E c \in CallIds, os \in ProbeCreateOutcomes : ProbeIssue(c, os) /\ UNCHANGED script
DoProbeComplete ==
    \E c \in CallIds, got \in ProbeGetOutcomes : ProbeComplete(c, got) /\ UNCHANGED script
DoRequestIssue ==
    \E c \in CallIds, os \in RequestCreateOutcomes(uwp) :
        RequestIssue(c, os) /\ UNCHANGED script
DoRequestComplete ==
    \E c \in CallIds, got \in RequestGetOutcomes :
        RequestComplete(c, got) /\ UNCHANGED script
DoFallback ==
    \E c \in CallIds, r \in PortableResults : Fallback(c, r) /\ UNCHANGED script
DoReturn == \E c \in CallIds : Return(c) /\ UNCHANGED script

Next ==
    \/ DoCall
    \/ DoProbeIssue
    \/ DoProbeComplete
    \/ DoRequestIssue
    \/ DoRequestComplete
    \/ DoFallback
    \/ DoReturn

Spec == Init /\ [][Next]_vars

\* The same calls when the OS completes every operation it accepted, the
\* fallback returns, and the calling thread or task is run.
Fairness ==
    /\ WF_vars(DoProbeIssue)
    /\ WF_vars(DoProbeComplete)
    /\ WF_vars(DoRequestIssue)
    /\ WF_vars(DoRequestComplete)
    /\ WF_vars(DoFallback)

SpecLive == Init /\ [][Next]_vars /\ Fairness

----------------------------------------------------------------------------
(* Specification of the builder: every chain of at most MaxSetters setters *)

DoBiometrics == \E b \in Strengths : Biometrics(b)
DoPassword == \E p \in BOOLEAN : Password(p)
DoWatch == \E w \in BOOLEAN : Watch(w)
DoWristDetection == \E w \in BOOLEAN : WristDetection(w)

NextBuilder ==
    \/ DoBiometrics
    \/ DoPassword
    \/ DoWatch
    \/ DoWristDetection
    \/ Build

InitB ==
    /\ calls = [c \in CallIds |-> IdleCall]
    /\ uwp = FALSE
    /\ script = NoScript
    /\ InitBuilder

SpecBuilder == InitB /\ [][NextBuilder]_vars

----------------------------------------------------------------------------
(* Specification of the two modes side by side: call 1 is a                *)
(* blocking_authenticate, call 2 an authenticate with the same prompt, and *)
(* the environment delivers to both the same outcome for the same          *)
(* operation: the first call to consume an outcome fixes it in `script`.   *)

BlockingCall == 1
SuspendingCall == 2
Pair == {BlockingCall, SuspendingCall}

Agreed(recorded, unset, x) == recorded = unset \/ recorded = x

InitEquiv ==
    /\ \E p \in Prompts :
          calls = [c \in CallIds |->
                     IF c = BlockingCall
                     THEN [IdleCall EXCEPT !.pc = "probe_call", !.mode = "blocking",
                                           !.prompt = p]
                     ELSE IF c = SuspendingCall
                     THEN [IdleCall EXCEPT !.pc = "probe_call", !.mode = "suspending",
                                           !.prompt = p]
                     ELSE IdleCall]
    /\ uwp \in BOOLEAN
    /\ script = NoScript
    /\ InitBuilder

EqProbeIssue ==
    \E c \in Pair, os \in ProbeCreateOutcomes :
        /\ Agreed(script.probeOs, NotYet, os)
        /\ ProbeIssue(c, os)
        /\ script' = [script EXCEPT !.probeOs = os]

EqProbeComplete ==
    \E c \in Pair, got \in ProbeGetOutcomes :
        /\ Agreed(script.probeGot, NotYet, got)
        /\ ProbeComplete(c, got)
        /\ script' = [script EXCEPT !.probeGot = got]

EqRequestIssue ==
    \E c \in Pair, os \in RequestCreateOutcomes(uwp) :
        /\ Agreed(script.reqOs, NoRequest, os)
        /\ RequestIssue(c, os)
        /\ script' = [script EXCEPT !.reqOs = os]

EqRequestComplete ==
    \E c \in Pair, got \in RequestGetOutcomes :
        /\ Agreed(script.reqGot, NotYet, got)
        /\ RequestComplete(c, got)
        /\ script' = [script EXCEPT !.reqGot = got]

EqFallback ==
    \E c \in Pair, r \in PortableResults :
        /\ Agreed(script.fbRes, NotYet, <<r>>)
        /\ Fallback(c, r)
        /\ script' = [script EXCEPT !.fbRes = <<r>>]

NextEquiv ==
    \/ EqProbeIssue
    \/ EqProbeComplete
    \/ EqRequestIssue
    \/ EqRequestComplete
    \/ EqFallback

SpecEquiv == InitEquiv /\ [][NextEquiv]_vars

----------------------------------------------------------------------------
(* Specification of concurrent calls: every slot may hold a call at any     *)
(* position at the same time (threads blocked in blocking_authenticate,     *)
(* suspended authenticate tasks), steps interleave freely, and each         *)
(* operation has a successful, a negative and a failing outcome.            *)

ConcProbeCreateOutcomes == {Ok("op"), Err("E_FAIL")}
ConcProbeGetOutcomes == {Ok("Available"), Ok("DeviceNotPresent"), Err("E_FAIL")}
ConcRequestCreateOutcomes ==
    {[stage |-> "accepted", err |-> "S_OK"], [stage |-> "call", err |-> "E_FAIL"]}
ConcRequestGetOutcomes == {Ok("Verified"), Ok("DeviceBusy"), Err("E_FAIL")}
ConcFallbackResults == {"Ok", "UserCanceled"}

\* A caller invokes the function while other calls may be outstanding.
Invoke(c, mode, prompt) ==
    /\ calls[c].pc = "idle"
    /\ calls' = [calls EXCEPT ![c] =
                    [IdleCall EXCEPT !.pc = "probe_call", !.mode = mode, !.prompt = prompt]]
    /\ UNCHANGED <<uwp, builder, history, built, policy>>

CcInvoke ==
    \E c \in CallIds, m \in Modes, p \in Prompts : Invoke(c, m, p) /\ UNCHANGED script
CcProbeIssue ==
    \E c \in CallIds, os \in ConcProbeCreateOutcomes :
        ProbeIssue(c, os) /\ UNCHANGED script
CcProbeComplete ==
    \E c \in CallIds, got \in ConcProbeGetOutcomes :
        ProbeComplete(c, got) /\ UNCHANGED script
CcRequestIssue ==
    \E c \in CallIds, os \in ConcRequestCreateOutcomes :
        RequestIssue(c, os) /\ UNCHANGED script
CcRequestComplete ==
    \E c \in CallIds, got \in ConcRequestGetOutcomes :
        RequestComplete(c, got) /\ UNCHANGED script
CcFallback ==
    \E c \in CallIds, r \in ConcFallbackResults : Fallback(c, r) /\ UNCHANGED script
CcReturn == \E c \in CallIds : Return(c) /\ UNCHANGED script

NextConc ==
    \/ CcInvoke
    \/ CcProbeIssue
    \/ CcProbeComplete
    \/ CcRequestIssue
    \/ CcRequestComplete
    \/ CcFallback
    \/ CcReturn

InitConc ==
    /\ calls = [c \in CallIds |-> IdleCall]
    /\ uwp = FALSE
    /\ script = NoScript
    /\ InitBuilder

SpecConc == InitConc /\ [][NextConc]_vars

----------------------------------------------------------------------------
(* Specification of the caption: calls on the live path with every prompt   *)
(* of at most MaxPromptLen characters, up to the issued request.            *)

\* Unicode scalar values: NUL, ASCII, Latin-1, the last BMP value, the first
\* and a middle supplementary value, and the last scalar value.
Chars == {0, 72, 233, 65535, 65536, 128512, 1114111}

Messages == UNION {[1..k -> Chars] : k \in 0..MaxPromptLen}

CpCall == \E c \in CallIds, m \in Modes, p \in Messages : Call(c, m, p) /\ UNCHANGED script
CpProbeIssue == \E c \in CallIds : ProbeIssue(c, Ok("op")) /\ UNCHANGED script
CpProbeComplete ==
    \E c \in CallIds : ProbeComplete(c, Ok("Available")) /\ UNCHANGED script
CpRequestIssue ==
    \E c \in CallIds :
        RequestIssue(c, [stage |-> "accepted", err |-> "S_OK"]) /\ UNCHANGED script
CpRequestComplete ==
    \E c \in CallIds : RequestComplete(c, Ok("Verified")) /\ UNCHANGED script

NextCaption ==
    \/ CpCall
    \/ CpProbeIssue
    \/ CpProbeComplete
    \/ CpRequestIssue
    \/ CpRequestComplete
    \/ DoReturn

SpecCaption == InitConc /\ [][NextCaption]_vars

----------------------------------------------------------------------------
(* Properties of the dispatcher *)

Failed(r) == r # NotYet /\ r[1] = "Err"
Delivered(r) == r # NotYet /\ r[1] = "Ok"

OpsOf(c, kind) == {i \in DOMAIN calls[c].ops : calls[c].ops[i].op = kind}

\* C1: within one call a verification request is issued only after that
\* call's probe was issued, was accepted, and completed with Available; the
\* probe precedes the request in the call's order of operations.
C1_ProbeBeforeRequest ==
    \A c \in CallIds :
        \A i \in OpsOf(c, "request") :
            /\ \E j \in OpsOf(c, "probe") : j < i
            /\ calls[c].probeOs = Ok("op")
            /\ calls[c].probeGot = Ok("Available")

C1_Witness ==
    \E c \in CallIds :
        /\ calls[c].pc = "request_wait"
        /\ calls[c].mode = "suspending"
        /\ calls[c].probeGot = Ok("Available")
        /\ calls[c].ops = <<ProbeOp, RequestOp(caption(calls[c].prompt))>>

\* C2: when the probe completes with an availability value other than
\* Available, the call issues no verification request, invokes the fallback
\* once with the caller's prompt text, and returns exactly the fallback's
\* result.
C2_UnavailableGoesToFallback ==
    \A c \in CallIds :
        (Delivered(calls[c].probeGot) /\ calls[c].probeGot # Ok("Available")) =>
            /\ OpsOf(c, "request") = {}
            /\ calls[c].reqOs = NoRequest
            /\ calls[c].pc \in {"fallback_call", "done"}
            /\ calls[c].pc = "fallback_call" =>
                   calls[c].ops = <<ProbeOp>> /\ calls[c].result = "pending"
            /\ calls[c].pc = "done" =>
                   /\ calls[c].ops = <<ProbeOp, FallbackOp(calls[c].prompt)>>
                   /\ calls[c].fbRes = <<calls[c].result>>

C2_Witness ==
    \E c \in CallIds :
        /\ calls[c].pc = "done"
        /\ calls[c].probeGot = Ok("DisabledByPolicy")
        /\ calls[c].fbRes = <<"Busy">>
        /\ calls[c].result = "Busy"
        /\ Cardinality(OpsOf(c, "fallback")) = 1

\* C3: whenever the probe fails, at its creation or at its completion, the
\* call has returned an error and has invoked nothing but the probe.
C3_ProbeFailureReturnsError ==
    \A c \in CallIds :
        (Failed(calls[c].probeOs) \/ Failed(calls[c].probeGot)) =>
            /\ calls[c].pc = "done"
            /\ calls[c].result \in ErrorKinds
            /\ calls[c].ops = <<ProbeOp>>

\* The fixed mapping table of the result normalizer.
MappingTable(code) ==
    IF code = "Verified" THEN "Ok"
    ELSE IF code \in {"DeviceNotPresent", "NotConfiguredForUser", "DisabledByPolicy"}
    THEN "Unavailable"
    ELSE IF code = "DeviceBusy" THEN "Busy"
    ELSE IF code = "RetriesExhausted" THEN "Exhausted"
    ELSE IF code = "Canceled" THEN "UserCanceled"
    ELSE "Unknown"

\* C4: convert returns, for every outcome code, the portable result of the
\* fixed table, and Unknown for a code outside it; a call whose request
\* completed with a code has returned that table entry.
C4_ConvertAgreesWithTable ==
    /\ \A code \in VerificationCodes :
          convert(code) = MappingTable(code) /\ convert(code) \in PortableResults
    /\ \A c \in CallIds :
          Delivered(calls[c].reqGot) =>
              /\ calls[c].pc = "done"
              /\ calls[c].result = MappingTable(calls[c].reqGot[2])

C4_Witness ==
    \E c \in CallIds :
        /\ calls[c].pc = "done"
        /\ calls[c].reqGot = Ok("Code7")
        /\ calls[c].result = "Unknown"

\* C5: when the probe completed with Available and the request completed
\* with code k, the call's result is convert(k) and the fallback was not
\* invoked; Verified gives success and DeviceBusy gives Busy.
C5_LiveResultIsConverted ==
    \A c \in CallIds :
        (calls[c].probeGot = Ok("Available") /\ Delivered(calls[c].reqGot)) =>
            /\ calls[c].pc = "done"
            /\ calls[c].result = convert(calls[c].reqGot[2])
            /\ OpsOf(c, "fallback") = {}
            /\ calls[c].fbRes = NotYet
            /\ calls[c].reqGot = Ok("Verified") => calls[c].result = "Ok"
            /\ calls[c].reqGot = Ok("DeviceBusy") => calls[c].result = "Busy"

C5_Witness ==
    \E c \in CallIds :
        /\ calls[c].pc = "done"
        /\ calls[c].mode = "blocking"
        /\ calls[c].probeGot = Ok("Available")
        /\ calls[c].reqGot = Ok("DeviceBusy")
        /\ calls[c].result = "Busy"

\* The path a call took: "error" while no probe result was delivered.
Path(st) ==
    IF st.probeGot = NotYet THEN "error"
    ELSE IF st.available THEN "live" ELSE "fallback"

\* Number of outcomes a call has consumed.
Consumed(st) ==
    Cardinality({f \in {"probeOs", "probeGot", "reqGot", "fbRes"} : st[f] # NotYet})
    + (IF st.reqOs # NoRequest THEN 1 ELSE 0)

\* C6: given the same outcomes, a blocking call and a suspending call that
\* have consumed equally many of them are at the same position, took the
\* same path, invoked the same operations in the same order and hold the
\* same result; in particular they return the same result.
C6_ModesEquivalent ==
    LET b == calls[BlockingCall]
        s == calls[SuspendingCall]
    IN  /\ Consumed(b) = Consumed(s) =>
              /\ b.pc = s.pc
              /\ b.ops = s.ops
              /\ b.result = s.result
              /\ Path(b) = Path(s)
        /\ (b.pc = "done" /\ s.pc = "done") =>
              /\ b.ops = s.ops
              /\ b.result = s.result
              /\ Path(b) = Path(s)

C6_Witness ==
    /\ calls[BlockingCall].pc = "done"
    /\ calls[SuspendingCall].pc = "done"
    /\ script.probeGot = Ok("DeviceBusy")
    /\ script.fbRes = <<"UserCanceled">>
    /\ calls[BlockingCall].result = "UserCanceled"
    /\ calls[SuspendingCall].result = "UserCanceled"
    /\ Path(calls[SuspendingCall]) = "fallback"

\* C10: when the verification request fails (interface factory, prompt string
\* conversion, the OS rejecting the request, or the issued request completing
\* with a platform error), the call has returned Unknown, has issued at most
\* that one request and has not invoked the fallback.
RequestFailed(st) ==
    st.reqOs.stage \in {"factory", "hstring", "call"} \/ Failed(st.reqGot)

C10_RequestFailureIsUnknown ==
    \A c \in CallIds :
        RequestFailed(calls[c]) =>
            /\ calls[c].pc = "done"
            /\ calls[c].result = "Unknown"
            /\ OpsOf(c, "fallback") = {}
            /\ calls[c].fbRes = NotYet
            /\ Cardinality(OpsOf(c, "request")) <= 1

C10_Witness ==
    \E c \in CallIds :
        /\ calls[c].pc = "done"
        /\ calls[c].reqGot = Err("E_ACCESSDENIED")
        /\ calls[c].result = "Unknown"
        /\ calls[c].ops = <<ProbeOp, RequestOp(caption(calls[c].prompt))>>

----------------------------------------------------------------------------
(* Properties of the builder *)

Has(f, a) == \E i \in DOMAIN history : history[i] = [f |-> f, arg |-> a]

\* C7: a chain containing password(false) anywhere builds no policy.
C7_PasswordFalseNoPolicy ==
    Has("password", "false") =>
        /\ build(builder) = NoPolicy
        /\ built => policy = NoPolicy

C7_Witness ==
    /\ built
    /\ policy = NoPolicy
    /\ Len(history) = 3
    /\ history[1] = [f |-> "password", arg |-> "false"]
    /\ history[2] = [f |-> "biometrics", arg |-> "Strong"]
    /\ history[3] = [f |-> "password", arg |-> "true"]

\* C8: a chain containing biometrics(None) anywhere, even before a later
\* biometrics(Some(strength)), builds no policy.
C8_BiometricsNoneNoPolicy ==
    Has("biometrics", "None") =>
        /\ build(builder) = NoPolicy
        /\ built => policy = NoPolicy

C8_Witness ==
    /\ built
    /\ policy = NoPolicy
    /\ Len(history) = 3
    /\ history[1] = [f |-> "biometrics", arg |-> "None"]
    /\ history[2] = [f |-> "biometrics", arg |-> "Weak"]
    /\ history[3] = [f |-> "password", arg |-> "true"]

\* The chain with its watch and wrist_detection calls removed.
RECURSIVE StripIgnored(_)
StripIgnored(h) ==
    IF h = <<>> THEN <<>>
    ELSE IF Head(h).f \in {"watch", "wrist_detection"}
    THEN StripIgnored(Tail(h))
    ELSE <<Head(h)>> \o StripIgnored(Tail(h))

\* The builder a chain of biometrics and password calls yields from `self`.
RECURSIVE Replay(_, _)
Replay(self, h) ==
    IF h = <<>> THEN self
    ELSE Replay(IF Head(h).f = "biometrics"
                THEN biometrics(self, IF Head(h).arg = "None"
                                      THEN NoStrength ELSE <<Head(h).arg>>)
                ELSE password(self, Head(h).arg = "true"),
                Tail(h))

AllSatisfiable ==
    \A i \in DOMAIN history :
        /\ history[i].f = "biometrics" => history[i].arg # "None"
        /\ history[i].f = "password" => history[i].arg = "true"

\* C9: a chain whose biometrics calls all carry a strength and whose password
\* calls all carry true builds a policy; and any chain builds what the same
\* chain without its watch and wrist_detection calls builds.
C9_WatchAndWristIgnored ==
    /\ AllSatisfiable =>
          /\ build(builder) = SomePolicy
          /\ built => policy = SomePolicy
    /\ build(builder) = build(Replay(new, StripIgnored(history)))
    /\ built => policy = build(Replay(new, StripIgnored(history)))

C9_Witness ==
    /\ built
    /\ policy = SomePolicy
    /\ Len(history) = 3
    /\ history[1] = [f |-> "biometrics", arg |-> "Strong"]
    /\ history[2] = [f |-> "watch", arg |-> "false"]
    /\ history[3] = [f |-> "password", arg |-> "true"]

----------------------------------------------------------------------------
(* Further properties of the dispatcher *)

Positions == {"probe_call", "probe_wait", "request_call", "request_wait", "fallback_call"}

\* C11: under the fairness of SpecLive every call in flight reaches "done"
\* holding one portable result; a call in flight is always at a position
\* where an outcome is still due, it holds no result before it is done, and
\* its result does not change once it is done.
C11_EveryCallResolves ==
    /\ \A c \in CallIds :
          InFlight(c) ~> (calls[c].pc = "done" /\ calls[c].result \in PortableResults)
    /\ [](\A c \in CallIds :
            /\ InFlight(c) => calls[c].pc \in Positions /\ calls[c].result = "pending"
            /\ calls[c].pc = "done" => calls[c].result \in PortableResults)
    /\ [][\A c \in CallIds :
            (calls[c].pc = "done" /\ calls'[c].pc = "done") =>
                calls'[c].result = calls[c].result]_vars

C11_Witness ==
    \E c \in CallIds :
        /\ calls[c].pc = "done"
        /\ calls[c].mode = "suspending"
        /\ calls[c].reqGot = Ok("CodeNeg1")
        /\ calls[c].result = "Unknown"

\* C13: a call issues at most one probe, one request and one fallback
\* invocation, never both a request and a fallback invocation, and a call that
\* has returned issues nothing more.
C13_AtMostOneOfEach ==
    /\ [](\A c \in CallIds :
            /\ Cardinality(OpsOf(c, "probe")) <= 1
            /\ Cardinality(OpsOf(c, "request")) <= 1
            /\ Cardinality(OpsOf(c, "fallback")) <= 1
            /\ OpsOf(c, "request") = {} \/ OpsOf(c, "fallback") = {})
    /\ [][\A c \in CallIds :
            calls[c].pc = "done" =>
                \/ calls'[c] = calls[c]
                \/ calls'[c] = IdleCall]_vars

C13_Witness ==
    \E c \in CallIds :
        /\ calls[c].pc = "done"
        /\ calls[c].mode = "blocking"
        /\ calls[c].reqGot = Ok("DeviceBusy")
        /\ calls[c].result = "Busy"
        /\ calls[c].ops = <<ProbeOp, RequestOp(caption(calls[c].prompt))>>

\* C15: when the probe was accepted and then completed with an error, the
\* call does not return that error: it issues no request, invokes the fallback
\* with the prompt text and returns the fallback's result.
C15_ProbeCompletionErrorFallsBack ==
    \A c \in CallIds :
        (calls[c].probeOs = Ok("op") /\ Failed(calls[c].probeGot)) =>
            /\ ~calls[c].available
            /\ OpsOf(c, "request") = {}
            /\ calls[c].reqOs = NoRequest
            /\ calls[c].pc \in {"fallback_call", "done"}
            /\ calls[c].pc = "fallback_call" => calls[c].result = "pending"
            /\ calls[c].pc = "done" =>
                   /\ calls[c].ops = <<ProbeOp, FallbackOp(calls[c].prompt)>>
                   /\ calls[c].fbRes = <<calls[c].result>>

C15_Witness ==
    \E c \in CallIds :
        /\ calls[c].pc = "done"
        /\ calls[c].mode = "blocking"
        /\ calls[c].probeGot = Err("E_FAIL")
        /\ calls[c].fbRes = <<"Ok">>
        /\ calls[c].result = "Ok"

----------------------------------------------------------------------------
(* Further properties of the builder *)

\* C12: no setter call changes the validity flag from false to true.
C12_ValidityMonotonic ==
    [][~builder.valid => ~builder'.valid]_vars

C12_Witness ==
    /\ ~builder.valid
    /\ Len(history) = 3
    /\ history[1] = [f |-> "biometrics", arg |-> "None"]
    /\ history[2] = [f |-> "wrist_detection", arg |-> "true"]
    /\ history[3] = [f |-> "biometrics", arg |-> "Strong"]

----------------------------------------------------------------------------
(* Independence of calls *)

\* The state a call alone reaches from its mode and prompt on the outcomes
\* delivered to its own probe, request and fallback invocation.
Alone(st) ==
    LET s0 == [IdleCall EXCEPT !.pc = "probe_call", !.mode = st.mode,
                               !.prompt = st.prompt]
        s1 == IF st.probeOs # NotYet THEN Run(s0, st.probeOs) ELSE s0
        s2 == IF st.probeGot # NotYet THEN Run(s1, st.probeGot) ELSE s1
        s3 == IF st.reqOs # NoRequest THEN Run(s2, st.reqOs) ELSE s2
        s4 == IF st.reqGot # NotYet THEN Run(s3, st.reqGot) ELSE s3
    IN  IF st.fbRes # NotYet THEN Run(s4, st.fbRes[1]) ELSE s4

\* C14: with calls interleaved in any way, every call past its first step
\* has issued its own probe, every call on the live path whose request reached
\* the OS has issued its own request carrying its own prompt, and every call's
\* position, path, operations and result are those it reaches alone on the
\* outcomes delivered to it.
C14_CallsIndependent ==
    \A c \in CallIds :
        calls[c].pc # "idle" =>
            /\ calls[c].pc # "probe_call" =>
                   /\ calls[c].probeOs # NotYet
                   /\ calls[c].ops # <<>>
                   /\ calls[c].ops[1] = ProbeOp
            /\ calls[c].reqOs.stage \in {"accepted", "call"} =>
                   calls[c].ops = <<ProbeOp, RequestOp(caption(calls[c].prompt))>>
            /\ calls[c].pc = Alone(calls[c]).pc
            /\ calls[c].available = Alone(calls[c]).available
            /\ calls[c].ops = Alone(calls[c]).ops
            /\ calls[c].result = Alone(calls[c]).result

\* Two calls outstanding at once, of different modes and prompts, with
\* availability differing between their probes.
C14_Witness ==
    \E c, d \in CallIds :
        /\ c # d
        /\ calls[c].mode = "blocking" /\ calls[d].mode = "suspending"
        /\ calls[c].prompt # calls[d].prompt
        /\ calls[c].pc = "request_wait"
        /\ calls[c].probeGot = Ok("Available")
        /\ calls[d].pc = "done"
        /\ calls[d].probeGot = Ok("DeviceNotPresent")
        /\ calls[d].ops = <<ProbeOp, FallbackOp(calls[d].prompt)>>
        /\ calls[d].result = "UserCanceled"

----------------------------------------------------------------------------
(* Order of the setters *)

\* The builder a chain of any setter calls yields from `self`.
RECURSIVE ReplayChain(_, _)
ReplayChain(self, h) ==
    IF h = <<>> THEN self
    ELSE LET e == Head(h)
             next == CASE e.f = "biometrics" ->
                             biometrics(self, IF e.arg = "None"
                                              THEN NoStrength ELSE <<e.arg>>)
                       [] e.f = "password" -> password(self, e.arg = "true")
                       [] e.f = "watch" -> watch(self, e.arg = "true")
                       [] e.f = "wrist_detection" -> wrist_detection(self, e.arg = "true")
         IN  ReplayChain(next, Tail(h))

Orderings(n) ==
    {p \in [1..n -> 1..n] : \A i, j \in 1..n : i # j => p[i] # p[j]}

Permuted(h, p) == [i \in 1..Len(h) |-> h[p[i]]]

\* C16: build() returns a policy exactly when no biometrics call of the chain
\* carried None and no password call carried false, and every permutation of
\* the chain builds the same.
C16_BuildIgnoresOrder ==
    /\ build(builder) = SomePolicy <=> AllSatisfiable
    /\ built => (policy = SomePolicy <=> AllSatisfiable)
    /\ \A p \in Orderings(Len(history)) :
          build(ReplayChain(new, Permuted(history, p))) = build(builder)

C16_Witness ==
    /\ built
    /\ policy = NoPolicy
    /\ Len(history) = 3
    /\ history[1] = [f |-> "biometrics", arg |-> "Strong"]
    /\ history[2] = [f |-> "password", arg |-> "false"]
    /\ history[3] = [f |-> "biometrics", arg |-> "Weak"]

NoBiometricsCall == \A i \in DOMAIN history : history[i].f # "biometrics"

\* C17 as stated: every chain that never calls biometrics builds a policy.
C17_NoBiometricsBuildsPolicy ==
    NoBiometricsCall =>
        /\ build(builder) = SomePolicy
        /\ built => policy = SomePolicy

\* C17 as amended: the empty chain, and every chain that never calls
\* biometrics and never calls password(false), builds a policy.
C17_StartsValid ==
    /\ history = <<>> => build(builder) = SomePolicy
    /\ (NoBiometricsCall /\ ~Has("password", "false")) =>
          /\ builder.valid
          /\ build(builder) = SomePolicy
          /\ built => policy = SomePolicy

\* A policy is held although biometrics was never called.
C17_Witness ==
    /\ built
    /\ policy = SomePolicy
    /\ NoBiometricsCall
    /\ history = <<[f |-> "password", arg |-> "true"]>>

----------------------------------------------------------------------------
(* The caption *)

\* Number of UTF-16 code units of a string.
RECURSIVE CodeUnits(_)
CodeUnits(m) ==
    IF m = <<>> THEN 0
    ELSE (IF Head(m) > 65535 THEN 2 ELSE 1) + CodeUnits(Tail(m))

\* UTF-16 decoding: a high surrogate followed by a low one is one character.
RECURSIVE DecodeUtf16(_)
DecodeUtf16(u) ==
    IF u = <<>> THEN <<>>
    ELSE IF /\ Len(u) >= 2
            /\ u[1] \in 55296..56319
            /\ u[2] \in 56320..57343
    THEN <<65536 + (u[1] - 55296) * 1024 + (u[2] - 56320)>>
         \o DecodeUtf16(SubSeq(u, 3, Len(u)))
    ELSE <<u[1]>> \o DecodeUtf16(Tail(u))

CaptionOf(m, cap) ==
    /\ Len(cap) = CodeUnits(m) + 1
    /\ cap[Len(cap)] = 0
    /\ \A i \in DOMAIN cap : cap[i] \in 0..65535
    /\ DecodeUtf16(SubSeq(cap, 1, Len(cap) - 1)) = m
    /\ m = <<>> => cap = <<0>>

\* C18: the caption of a call's prompt is the prompt's UTF-16 code units in
\* order followed by one 0, and it is what the issued request carries.
C18_CaptionIsUtf16Terminated ==
    \A c \in CallIds :
        calls[c].pc # "idle" =>
            /\ CaptionOf(calls[c].prompt, caption(calls[c].prompt))
            /\ \A i \in OpsOf(c, "request") :
                  CaptionOf(calls[c].prompt, calls[c].ops[i].text)

C18_Witness ==
    \E c \in CallIds :
        /\ calls[c].pc = "request_wait"
        /\ calls[c].prompt = <<128512, 0>>
        /\ calls[c].ops[2] = RequestOp(<<55357, 56832, 0, 0>>)

====
